---- MODULE Spec2Model ----
(***************************************************************************)
(* State-machine model of the two scripts of the repository:               *)
(*   ofp4/run-of-test.py               (the test driver and run_timeout)   *)
(*   nerpa_controlplane/snvs/sendpacket.py   (the packet injector)         *)
(* Strings are sequences of one-character strings, so that indexing,       *)
(* startswith, split and basename are computed as the code computes them.  *)
(* A Python value that may be None is a sequence: << >> is None, <<v>> is  *)
(* the value v.                                                            *)
(***************************************************************************)
EXTENDS Integers, Sequences, FiniteSets, TLC

VARIABLES
    prog,          \* which script runs: "run-of-test" or "sendpacket"
    sysargv,       \* sys.argv as given to the process (never changes)
    argv,          \* main's local argv, shifted while options are parsed
    options,       \* the Options object
    pc,            \* position of the main thread
    buffered,      \* sys.stdout is block-buffered (not a terminal, no -u)
    stdio,         \* [out: lines that reached the output (stdout and stderr
                   \*  merged), buf: lines print() left in the stdout buffer]
    tmpdir,        \* scratch directory: "none", "exists", "removed"
    args,          \* argument vector of the external command
    localProcess,  \* local.process: "None" or "Popen"
    returncode,    \* local.process.returncode (<< >> while unset)
    hpc,           \* position of the helper thread (target)
    child,         \* the external process: [state, status, sigPending]
    signals,       \* signals the runner has sent to the child, in order
    termRequests,  \* number of calls of local.process.terminate()
    timedOut,      \* the timed join returned because the timeout elapsed
    atJoin,        \* child and helper state when the timed join returned
    popenFailed,   \* Popen raised in the helper thread
    result,        \* value returned by run_timeout (<< >> before it returns)
    exitArg,       \* argument of the pending sys.exit
    exitStatus,    \* exit status of the script's process (<< >> while running)
    frames         \* frames emitted by the packet injector

vars == <<prog, sysargv, argv, options, pc, buffered, stdio, tmpdir, args, localProcess,
          returncode, hpc, child, signals, termRequests, timedOut, atJoin,
          popenFailed, result, exitArg, exitStatus, frames>>

rtVars == <<localProcess, returncode, hpc, child, signals, termRequests,
            timedOut, atJoin, popenFailed, result>>

----------------------------------------------------------------------------
(* Bounds of the model *)

\* longest sys.argv (program name included) given to the driver
MaxArgv == 5
\* exit codes 0..MaxCode of the external command are tried, and 255
MaxCode == 2

----------------------------------------------------------------------------
(* Program constants *)

SUCCESS == 0
FAILURE == 1
\* the value run_timeout returns when the process never started
NEVER_STARTED == -1
\* signal number of Popen.terminate(); a child it kills has returncode -SIGTERM
SIGTERM == 15
\* other signals the external command may die of, whoever sends them
SIGHUP == 1
SIGKILL == 9
Signals == {SIGHUP, SIGKILL, SIGTERM}
\* exit status of a Python process that ends with an uncaught exception
UNCAUGHT == 1

----------------------------------------------------------------------------
(* Strings of the command lines *)

OptB       == <<"-", "b">>
OptV       == <<"-", "v">>
OptA       == <<"-", "a">>
OptUnknown == <<"-", "x">>
RootDir    == <<"r">>
P4File     == <<"r", "/", "d", ".", "p", "4">>
NoFile     == <<"n", ".", "p", "4">>
ExtraArgs  == <<"O", "\t", " ", "g", "\n">>
EmptyStr   == << >>
Binary     == <<"t">>

DriverTokens == {OptB, OptV, OptA, OptUnknown, RootDir, P4File, NoFile,
                 ExtraArgs, EmptyStr}

Sel0 == <<"0">>
Sel1 == <<"1">>
InjectorTokens == {Sel0, Sel1, <<"2">>, <<"0", "1">>, <<"1", "0">>,
                   <<"-", "1">>, EmptyStr, <<"v", "e", "t", "h", "0">>}

\* the file system the driver runs in: one directory, one regular file
isdir(s)  == s = RootDir
isfile(s) == s = P4File

SeqsUpTo(S, n) == UNION {[1..k -> S] : k \in 0..n}

ExitCodes == (0..MaxCode) \cup {255}

----------------------------------------------------------------------------
(* Pure helpers *)

Concat(ss) ==
    LET RECURSIVE go(_)
        go(s) == IF s = << >> THEN << >> ELSE Head(s) \o go(Tail(s))
    IN go(ss)

startswith(s, p) == Len(p) <= Len(s) /\ SubSeq(s, 1, Len(p)) = p
endswith(s, p) ==
    Len(p) <= Len(s) /\ SubSeq(s, Len(s) - Len(p) + 1, Len(s)) = p

\* the characters str.isspace() holds of; those TLA+ has no escape for are
\* written as their code points
Whitespace ==
    {" ", "\t", "\n", "\r", "\f", "U+000B", "U+001C", "U+001D", "U+001E",
     "U+001F", "U+0085", "U+00A0", "U+1680", "U+2000", "U+2001", "U+2002",
     "U+2003", "U+2004", "U+2005", "U+2006", "U+2007", "U+2008", "U+2009",
     "U+200A", "U+2028", "U+2029", "U+202F", "U+205F", "U+3000"}

\* str.split(): the maximal runs of non-whitespace characters
split(str) ==
    LET RECURSIVE go(_, _, _)
        go(s, cur, acc) ==
            IF s = << >>
            THEN IF cur = << >> THEN acc ELSE Append(acc, cur)
            ELSE IF Head(s) \in Whitespace
                 THEN go(Tail(s), << >>,
                         IF cur = << >> THEN acc ELSE Append(acc, cur))
                 ELSE go(Tail(s), Append(cur, Head(s)), acc)
    IN go(str, << >>, << >>)

\* os.path.basename: what follows the last "/"
basename(path) ==
    LET slashes == {i \in 1..Len(path) : path[i] = "/"}
        last == IF slashes = {} THEN 0
                ELSE CHOOSE i \in slashes : \A j \in slashes : j <= i
    IN SubSeq(path, last + 1, Len(path))

\* lines 158-164 of main: the logical test name (<< >> is None)
testName(p4filename, srcdir) ==
    IF ~startswith(p4filename, srcdir) THEN << >>
    ELSE LET t1 == SubSeq(p4filename, Len(srcdir) + 1, Len(p4filename))
             t2 == IF startswith(t1, <<"/">>) THEN Tail(t1) ELSE t1
             t3 == IF endswith(t2, <<".", "p", "4">>)
                   THEN SubSeq(t2, 1, Len(t2) - 3) ELSE t2
         IN <<t3>>

\* exit status the operating system reports for sys.exit(n)
ExitStatusOf(n) == n % 256

\* print(...): the line goes to sys.stdout, which holds it back until it is
\* flushed when block-buffered
print(io, line) ==
    IF buffered THEN [io EXCEPT !.buf = Append(@, line)]
    ELSE [io EXCEPT !.out = Append(@, line)]

\* print(..., file=sys.stderr) and tracebacks: written at once
eprint(io, line) == [io EXCEPT !.out = Append(@, line)]

\* sys.stdout is flushed: what it held back reaches the output
flush(io) == [out |-> io.out \o io.buf, buf |-> << >>]

\* an exception leaves the script's main code: the interpreter flushes
\* sys.stdout and then writes the traceback to stderr, before it waits for
\* the helper thread
uncaught(io) == eprint(flush(io), "Traceback")

\* the line has reached the output
Written(line) == \E i \in 1..Len(stdio.out) : stdio.out[i] = line
\* a print call for the line has been made
Printed(line) == Written(line) \/ \E i \in 1..Len(stdio.buf) : stdio.buf[i] = line

\* usage(options): the fixed usage message, one entry, on stdout
usage(io) == print(io, "usage")

----------------------------------------------------------------------------
(* Initial states *)

InitOptions ==
    [cleanupTmp |-> TRUE, binary |-> << >>, p4filename |-> << >>,
     compilerSrcdir |-> << >>, verbose |-> FALSE, compilerOptions |-> << >>,
     testName |-> << >>]

NoChild == [state |-> "none", status |-> << >>, sigPending |-> FALSE]

InitRun ==
    /\ localProcess = "None"
    /\ returncode = << >>
    /\ hpc = "unstarted"
    /\ child = NoChild
    /\ signals = << >>
    /\ termRequests = 0
    /\ timedOut = FALSE
    /\ atJoin = [child |-> "n/a", helper |-> "n/a"]
    /\ popenFailed = FALSE
    /\ result = << >>

Init ==
    /\ prog \in {"run-of-test", "sendpacket"}
    /\ \/ /\ prog = "run-of-test"
          /\ sysargv \in {<<Binary>> \o a : a \in SeqsUpTo(DriverTokens, MaxArgv - 1)}
          /\ pc = "main"
       \/ /\ prog = "sendpacket"
          /\ sysargv \in {<<Binary>> \o a : a \in SeqsUpTo(InjectorTokens, 2)}
          /\ pc = "send"
    /\ argv = sysargv
    /\ options = InitOptions
    /\ buffered \in BOOLEAN
    /\ stdio = [out |-> << >>, buf |-> << >>]
    /\ tmpdir = "none"
    /\ args = << >>
    /\ InitRun
    /\ exitArg = << >>
    /\ exitStatus = << >>
    /\ frames = << >>

----------------------------------------------------------------------------
(* main: argument parsing *)

\* lines 124-136
MainStart ==
    /\ prog = "run-of-test" /\ pc = "main"
    /\ IF Len(argv) <= 2
       THEN /\ options' = [options EXCEPT !.binary = argv[1]]
            /\ stdio' = usage(stdio)
            /\ exitArg' = <<FAILURE>>
            /\ pc' = "sysexit"
            /\ argv' = argv
       ELSE /\ options' = [options EXCEPT !.binary = argv[1],
                                          !.compilerSrcdir = argv[2]]
            /\ argv' = Tail(Tail(argv))
            /\ IF ~isdir(argv[2])
               THEN /\ stdio' = usage(eprint(stdio, "is not a folder"))
                    /\ exitArg' = <<FAILURE>>
                    /\ pc' = "sysexit"
               ELSE /\ stdio' = stdio
                    /\ exitArg' = exitArg
                    /\ pc' = "opts"
    /\ UNCHANGED <<prog, sysargv, buffered, tmpdir, args, rtVars, exitStatus, frames>>

\* the loop test of line 138 raises IndexError on an empty list or string
LoopTestRaises == IF argv = << >> THEN TRUE ELSE argv[1] = << >>
LoopTest == IF LoopTestRaises THEN FALSE ELSE argv[1][1] = "-"

\* lines 138-155: one evaluation of the loop test and, if it holds, one
\* iteration of the option loop
ParseOption ==
    /\ prog = "run-of-test" /\ pc = "opts"
    /\ IF LoopTestRaises THEN TRUE ELSE LoopTest
    /\ IF LoopTestRaises
       THEN /\ pc' = "exc"
            /\ stdio' = uncaught(stdio)
            /\ UNCHANGED <<argv, options, exitArg>>
       ELSE CASE argv[1] = OptB ->
                 /\ options' = [options EXCEPT !.cleanupTmp = FALSE]
                 /\ argv' = Tail(argv)
                 /\ UNCHANGED <<pc, buffered, stdio, exitArg>>
              [] argv[1] = OptV ->
                 /\ options' = [options EXCEPT !.verbose = TRUE]
                 /\ argv' = Tail(argv)
                 /\ UNCHANGED <<pc, buffered, stdio, exitArg>>
              [] argv[1] = OptA ->
                 IF Len(argv) = 0
                 THEN /\ stdio' = usage(print(stdio, "Missing argument for -a option"))
                      /\ exitArg' = <<FAILURE>>
                      /\ pc' = "sysexit"
                      /\ UNCHANGED <<argv, options>>
                 ELSE IF Len(argv) < 2
                 THEN \* argv[1] of line 149 raises IndexError
                      /\ pc' = "exc"
                      /\ stdio' = uncaught(stdio)
                      /\ UNCHANGED <<argv, options, exitArg>>
                 ELSE /\ options' = [options EXCEPT !.compilerOptions =
                                         @ \o split(argv[2])]
                      /\ argv' = Tail(Tail(argv))
                      /\ UNCHANGED <<pc, buffered, stdio, exitArg>>
              [] OTHER ->
                 /\ stdio' = usage(eprint(stdio, "Unknown option"))
                 /\ exitArg' = <<FAILURE>>
                 /\ pc' = "sysexit"
                 /\ UNCHANGED <<argv, options>>
    /\ UNCHANGED <<prog, sysargv, buffered, tmpdir, args, rtVars, exitStatus, frames>>

\* lines 157-166: the loop test is false; the file name is the last argument
ParseDone ==
    /\ prog = "run-of-test" /\ pc = "opts"
    /\ ~LoopTestRaises /\ ~LoopTest
    /\ options' = [options EXCEPT
                     !.p4filename = argv[Len(argv)],
                     !.testName = testName(argv[Len(argv)], options.compilerSrcdir)]
    /\ pc' = "process_file"
    /\ UNCHANGED <<prog, sysargv, argv, buffered, stdio, tmpdir, args, rtVars, exitArg,
                   exitStatus, frames>>

----------------------------------------------------------------------------
(* process_file, up to the call of run_timeout *)

TmpDirName == <<".", "/", "t", "m", "p">>
P4C_OF == <<".", "/", "p", "4", "c", "-", "o", "f">>

\* lines 102-104: the three derived paths
stderrFile(b)    == Concat(<<TmpDirName, <<"/">>, b, <<"-", "s", "t", "d", "e", "r", "r">>>>)
p4runtimeFile(b) == Concat(<<TmpDirName, <<"/">>, b,
                             <<".", "p", "4", "i", "n", "f", "o", ".", "t", "x", "t">>>>)
outputFile(b)    == Concat(<<TmpDirName, <<"/">>, b, <<".", "d", "l">>>>)

\* lines 108-109
CommandLine(opts, rest) ==
    <<P4C_OF, <<"-", "o">>, outputFile(basename(opts.p4filename)),
      <<"-", "-", "p", "4", "r", "u", "n", "t", "i", "m", "e", "-", "f", "i", "l", "e", "s">>,
      p4runtimeFile(basename(opts.p4filename))>> \o opts.compilerOptions \o rest

\* lines 95-109: the scratch directory is created first, then the input file
\* is looked for; a missing file raises out of process_file
PFSetup ==
    /\ prog = "run-of-test" /\ pc = "process_file"
    /\ tmpdir' = "exists"
    /\ LET l1 == IF options.verbose
                 THEN print(stdio, "Writing temporary files into") ELSE stdio
       IN IF ~isfile(options.p4filename)
          THEN /\ stdio' = uncaught(l1)
               /\ pc' = "exc"
               /\ args' = args
          ELSE /\ stdio' = l1
               /\ args' = CommandLine(options, argv)
               /\ pc' = "rt_print"
    /\ UNCHANGED <<prog, sysargv, buffered, argv, options, rtVars, exitArg, exitStatus, frames>>

----------------------------------------------------------------------------
(* run_timeout: the main thread *)

HelperAlive == hpc \in {"Popen", "store", "wait", "waiting", "filter"}

\* lines 63-66
RTPrint ==
    /\ pc = "rt_print"
    /\ stdio' = print(stdio, "cmdline")
    /\ localProcess' = "None"
    /\ pc' = "rt_start"
    /\ UNCHANGED <<prog, sysargv, buffered, argv, options, tmpdir, args, returncode, hpc,
                   child, signals, termRequests, timedOut, atJoin, popenFailed,
                   result, exitArg, exitStatus, frames>>

\* lines 76-77
RTStart ==
    /\ pc = "rt_start"
    /\ hpc' = "Popen"
    /\ pc' = "rt_join"
    /\ UNCHANGED <<prog, sysargv, argv, options, buffered, stdio, tmpdir, args, localProcess,
                   returncode, child, signals, termRequests, timedOut, atJoin,
                   popenFailed, result, exitArg, exitStatus, frames>>

\* line 78: thread.join(timeout) returns when the helper thread has finished
\* or when the timeout has elapsed, whichever comes first
RTJoin ==
    /\ pc = "rt_join"
    /\ timedOut' = HelperAlive
    /\ atJoin' = [child |-> child.state, helper |-> hpc]
    /\ pc' = "rt_is_alive"
    /\ UNCHANGED <<prog, sysargv, argv, options, buffered, stdio, tmpdir, args, localProcess,
                   returncode, hpc, child, signals, termRequests, popenFailed,
                   result, exitArg, exitStatus, frames>>

\* line 79
RTIsAlive ==
    /\ pc = "rt_is_alive"
    /\ pc' = IF HelperAlive THEN "rt_timeout" ELSE "rt_return"
    /\ UNCHANGED <<prog, sysargv, argv, options, buffered, stdio, tmpdir, args, rtVars,
                   exitArg, exitStatus, frames>>

\* lines 80-81
RTTimeoutMsg ==
    /\ pc = "rt_timeout"
    /\ stdio' = eprint(stdio, "Timeout")
    /\ pc' = "rt_terminate"
    /\ UNCHANGED <<prog, sysargv, buffered, argv, options, tmpdir, args, rtVars,
                   exitArg, exitStatus, frames>>

\* line 82: local.process.terminate().  On None the attribute lookup raises
\* AttributeError.  Popen.terminate is send_signal(SIGTERM), which polls
\* first: unless the helper thread holds the waitpid lock (it is blocked in
\* wait()), a child that has exited is reaped here and its status stored, and
\* no signal is sent.  Otherwise, with the return code still unknown, SIGTERM
\* is sent; sent to a child that has exited it has no effect.
RTTerminate ==
    /\ pc = "rt_terminate"
    /\ IF localProcess = "None"
       THEN /\ pc' = "exc"
            /\ stdio' = uncaught(stdio)
            /\ UNCHANGED <<termRequests, signals, child, returncode>>
       ELSE /\ pc' = "rt_join2"
            /\ stdio' = stdio
            /\ termRequests' = termRequests + 1
            /\ IF returncode # << >>
               THEN UNCHANGED <<signals, child, returncode>>
               ELSE IF child.state = "exited" /\ hpc # "waiting"
               THEN /\ returncode' = child.status
                    /\ UNCHANGED <<signals, child>>
               ELSE /\ signals' = Append(signals, "SIGTERM")
                    /\ child' = IF child.state = "running"
                                THEN [child EXCEPT !.sigPending = TRUE]
                                ELSE child
                    /\ returncode' = returncode
    /\ UNCHANGED <<prog, sysargv, buffered, argv, options, tmpdir, args, localProcess,
                   hpc, timedOut, atJoin, popenFailed, result,
                   exitArg, exitStatus, frames>>

\* RTJoin2 with the second join left out: the runner does not wait
RTJoin2NoWait ==
    /\ pc = "rt_join2"
    /\ pc' = "rt_return"
    /\ UNCHANGED <<prog, sysargv, argv, options, buffered, stdio, tmpdir, args, rtVars,
                   exitArg, exitStatus, frames>>

\* line 83: thread.join() without timeout
RTJoin2 ==
    /\ pc = "rt_join2"
    /\ ~HelperAlive
    /\ pc' = "rt_return"
    /\ UNCHANGED <<prog, sysargv, argv, options, buffered, stdio, tmpdir, args, rtVars,
                   exitArg, exitStatus, frames>>

\* lines 84-91
RTReturn ==
    /\ pc = "rt_return"
    /\ IF localProcess = "None"
       THEN /\ stdio' = IF options.verbose
                      THEN print(stdio, "Process failed to start") ELSE stdio
            /\ result' = <<NEVER_STARTED>>
       ELSE /\ stdio' = IF options.verbose THEN print(stdio, "Exit code") ELSE stdio
            /\ result' = returncode
    /\ pc' = "pf_after"
    /\ UNCHANGED <<prog, sysargv, buffered, argv, options, tmpdir, args, localProcess,
                   returncode, hpc, child, signals, termRequests, timedOut,
                   atJoin, popenFailed, exitArg, exitStatus, frames>>

----------------------------------------------------------------------------
(* run_timeout: the helper thread (target) and the external process *)

\* line 70, right-hand side: Popen(args) starts the child, or raises when the
\* executable is missing or not runnable (the exception ends the thread)
HSpawn ==
    /\ hpc = "Popen"
    /\ \/ /\ child' = [state |-> "running", status |-> << >>, sigPending |-> FALSE]
          /\ hpc' = "store"
          /\ UNCHANGED <<popenFailed, buffered, stdio>>
       \/ /\ popenFailed' = TRUE
          /\ hpc' = "dead"
          /\ stdio' = eprint(stdio, "Traceback")
          /\ child' = child
    /\ UNCHANGED <<prog, sysargv, buffered, argv, options, pc, tmpdir, args, localProcess,
                   returncode, signals, termRequests, timedOut, atJoin, result,
                   exitArg, exitStatus, frames>>

\* line 70, the assignment to local.process
HStore ==
    /\ hpc = "store"
    /\ localProcess' = "Popen"
    /\ hpc' = "wait"
    /\ UNCHANGED <<prog, sysargv, argv, options, pc, buffered, stdio, tmpdir, args, returncode,
                   child, signals, termRequests, timedOut, atJoin, popenFailed,
                   result, exitArg, exitStatus, frames>>

\* line 71, entering wait(): it returns at once when the return code is
\* already known, else it takes the waitpid lock and blocks in waitpid
HEnterWait ==
    /\ hpc = "wait"
    /\ hpc' = IF returncode # << >> THEN "filter" ELSE "waiting"
    /\ UNCHANGED <<prog, sysargv, argv, options, pc, buffered, stdio, tmpdir, args,
                   localProcess, returncode, child, signals, termRequests, timedOut,
                   atJoin, popenFailed, result, exitArg, exitStatus, frames>>

\* line 71: waitpid returns once the child has exited; wait() stores its status
HWait ==
    /\ hpc = "waiting"
    /\ child.state = "exited"
    /\ returncode' = child.status
    /\ hpc' = "filter"
    /\ UNCHANGED <<prog, sysargv, argv, options, pc, buffered, stdio, tmpdir, args,
                   localProcess, child, signals, termRequests, timedOut, atJoin,
                   popenFailed, result, exitArg, exitStatus, frames>>

\* lines 72-74: local.filter is None, so the thread just ends
HFinish ==
    /\ hpc = "filter"
    /\ hpc' = "done"
    /\ UNCHANGED <<prog, sysargv, argv, options, pc, buffered, stdio, tmpdir, args,
                   localProcess, returncode, child, signals, termRequests,
                   timedOut, atJoin, popenFailed, result, exitArg, exitStatus,
                   frames>>

\* the external command exits by itself with code n (also after it has caught
\* a termination signal)
ChildExit ==
    /\ child.state = "running"
    /\ \E n \in ExitCodes :
          child' = [child EXCEPT !.state = "exited", !.status = <<n>>]
    /\ UNCHANGED <<prog, sysargv, argv, options, pc, buffered, stdio, tmpdir, args,
                   localProcess, returncode, hpc, signals, termRequests,
                   timedOut, atJoin, popenFailed, result, exitArg, exitStatus,
                   frames>>

\* the external command dies of a signal, the runner's SIGTERM or one sent by
\* anybody else: Popen reports the negated signal number as its return code
ChildKilled ==
    /\ child.state = "running"
    /\ \E sig \in Signals :
          child' = [child EXCEPT !.state = "exited", !.status = <<-sig>>]
    /\ UNCHANGED <<prog, sysargv, argv, options, pc, buffered, stdio, tmpdir, args,
                   localProcess, returncode, hpc, signals, termRequests,
                   timedOut, atJoin, popenFailed, result, exitArg, exitStatus,
                   frames>>

----------------------------------------------------------------------------
(* process_file after run_timeout, and the end of the process *)

\* lines 112-120, and line 167 up to the evaluation of sys.exit's argument
PFAfter ==
    /\ pc = "pf_after"
    /\ LET l1 == IF result # <<SUCCESS>> THEN print(stdio, "Error compiling") ELSE stdio
       IN IF options.cleanupTmp
          THEN /\ stdio' = IF options.verbose THEN print(l1, "Removing") ELSE l1
               /\ tmpdir' = "removed"
          ELSE /\ stdio' = l1
               /\ tmpdir' = tmpdir
    /\ exitArg' = result
    /\ pc' = "sysexit"
    /\ UNCHANGED <<prog, sysargv, buffered, argv, options, args, rtVars, exitStatus, frames>>

\* sys.exit(n): the interpreter waits for the helper thread (it is not a
\* daemon) and the process ends with status n modulo 256
SysExit ==
    /\ pc = "sysexit"
    /\ ~HelperAlive
    /\ exitStatus' = <<ExitStatusOf(exitArg[1])>>
    /\ pc' = "exited"
    /\ stdio' = flush(stdio)
    /\ UNCHANGED <<prog, sysargv, argv, options, buffered, tmpdir, args, rtVars,
                   exitArg, frames>>

\* an exception nobody catches ends the process with status 1
UncaughtExit ==
    /\ pc = "exc"
    /\ ~HelperAlive
    /\ exitStatus' = <<UNCAUGHT>>
    /\ pc' = "exited"
    /\ stdio' = flush(stdio)
    /\ UNCHANGED <<prog, sysargv, argv, options, buffered, tmpdir, args, rtVars,
                   exitArg, frames>>

----------------------------------------------------------------------------
(* sendpacket.py *)

MAC_A == <<"00", "11", "11", "00", "00", "00">>
MAC_B == <<"00", "22", "22", "00", "00", "00">>

\* Ether(src, dst)/IP(dst="1.2.3.4")/UDP(sport=1234, dport=2345) on iface
Frame(src, dst, iface) ==
    [src |-> src, dst |-> dst, ipdst |-> "1.2.3.4", sport |-> 1234,
     dport |-> 2345, iface |-> iface]

\* SendPacket with the else branch falling back to the first frame
SendPacketDefault ==
    /\ prog = "sendpacket" /\ pc = "send"
    /\ IF Len(argv) < 2
       THEN /\ pc' = "exc"
            /\ stdio' = uncaught(stdio)
            /\ UNCHANGED <<frames, exitArg>>
       ELSE IF argv[2] = Sel1
       THEN /\ frames' = Append(frames, Frame(MAC_B, MAC_A, "veth2"))
            /\ exitArg' = <<SUCCESS>>
            /\ pc' = "sysexit"
            /\ stdio' = stdio
       ELSE /\ frames' = Append(frames, Frame(MAC_A, MAC_B, "veth0"))
            /\ exitArg' = <<SUCCESS>>
            /\ pc' = "sysexit"
            /\ stdio' = stdio
    /\ UNCHANGED <<prog, sysargv, buffered, argv, options, tmpdir, args, rtVars, exitStatus>>

\* lines 6-11; sys.argv[1] raises IndexError when no selector is given and
\* "raise False" raises TypeError
SendPacket ==
    /\ prog = "sendpacket" /\ pc = "send"
    /\ IF Len(argv) < 2
       THEN /\ pc' = "exc"
            /\ stdio' = uncaught(stdio)
            /\ UNCHANGED <<frames, exitArg>>
       ELSE IF argv[2] = Sel0
       THEN /\ frames' = Append(frames, Frame(MAC_A, MAC_B, "veth0"))
            /\ exitArg' = <<SUCCESS>>
            /\ pc' = "sysexit"
            /\ stdio' = stdio
       ELSE IF argv[2] = Sel1
       THEN /\ frames' = Append(frames, Frame(MAC_B, MAC_A, "veth2"))
            /\ exitArg' = <<SUCCESS>>
            /\ pc' = "sysexit"
            /\ stdio' = stdio
       ELSE /\ pc' = "exc"
            /\ stdio' = uncaught(stdio)
            /\ UNCHANGED <<frames, exitArg>>
    /\ UNCHANGED <<prog, sysargv, buffered, argv, options, tmpdir, args, rtVars, exitStatus>>

----------------------------------------------------------------------------

Next ==
    \/ MainStart \/ ParseOption \/ ParseDone \/ PFSetup
    \/ RTPrint \/ RTStart \/ RTJoin \/ RTIsAlive \/ RTTimeoutMsg \/ RTTerminate
    \/ RTJoin2 \/ RTReturn
    \/ HSpawn \/ HStore \/ HEnterWait \/ HWait \/ HFinish \/ ChildExit \/ ChildKilled
    \/ PFAfter \/ SysExit \/ UncaughtExit
    \/ SendPacket

Spec == Init /\ [][Next]_vars

----------------------------------------------------------------------------
(* Claims *)

Driver == prog = "run-of-test"
\* run_timeout was entered and the main thread has left it, by return or raise
RunTimeoutLeft == Driver /\ Printed("cmdline") /\ pc \in {"pf_after", "sysexit", "exited", "exc"}
Returned == Driver /\ pc \in {"pf_after", "sysexit", "exited"} /\ Printed("cmdline")

\* C1: when the child has started and exited by itself with code N before the
\* timeout elapses (it had exited, and its handle was stored in local.process,
\* when the timed join returned), run_timeout returns exactly N, sends no
\* termination request and writes no Timeout line.
C1_ExitsInTime ==
    (Driver /\ atJoin.child = "exited"
       /\ atJoin.helper \in {"wait", "waiting", "filter", "done"}
       /\ child.status[1] >= 0) =>
        /\ termRequests = 0
        /\ ~Written("Timeout")
        /\ (RunTimeoutLeft => result = child.status)

\* C2: when the timeout elapses while the started child is still running and
\* the timeout branch is taken, run_timeout sends the termination request,
\* returns only after the child has exited, and returns the sentinel -1, the
\* value it returns on start failure.
C2_TimeoutSentinel ==
    (RunTimeoutLeft /\ timedOut /\ atJoin.child = "running"
       /\ atJoin.helper \in {"wait", "waiting"} /\ Written("Timeout")) =>
        /\ termRequests = 1
        /\ child.state = "exited"
        /\ result = <<NEVER_STARTED>>

\* C3: an invocation that reached the external command ends with exit status
\* 0 if run_timeout's result is 0 and with exit status 1 otherwise.
C3_ExitZeroOrOne ==
    (Driver /\ pc = "exited" /\ Printed("cmdline")) =>
        exitStatus = IF result = <<SUCCESS>> THEN <<0>> ELSE <<1>>

\* C4: with cleanup enabled, once the scratch directory has been created it
\* no longer exists when the driver has exited, whatever the exit path.
C4_ScratchRemoved ==
    (Driver /\ pc = "exited" /\ options.cleanupTmp /\ tmpdir # "none") =>
        tmpdir = "removed"

OnlyFlags(a, from, to) == \A i \in from..to : a[i] \in {OptB, OptV}
Malformed(a) ==
    \/ Len(a) <= 2                                             \* too few
    \/ /\ Len(a) > 2
       /\ \/ ~isdir(a[2])                                      \* no such root
          \/ /\ isdir(a[2])
             /\ \/ a[3] = OptUnknown                           \* unknown flag
                \/ OnlyFlags(a, 3, Len(a))                     \* no file
                \/ a[Len(a)] = OptA /\ OnlyFlags(a, 3, Len(a) - 1)  \* -a alone
                \/ a[Len(a)] = NoFile /\ OnlyFlags(a, 3, Len(a) - 1) \* no such file

\* C5: a malformed invocation prints the usage message, exits with status 1
\* and never starts the external command.
C5_MalformedUsage ==
    (Driver /\ pc = "exited" /\ Malformed(sysargv)) =>
        /\ Written("usage")
        /\ exitStatus = <<FAILURE>>
        /\ child.state = "none" /\ ~Printed("cmdline")

\* C6: when creating the child process fails, run_timeout returns -1, sends
\* no termination request, and writes "Process failed to start" exactly when
\* verbose mode is on.
C6_StartFailure ==
    (RunTimeoutLeft /\ popenFailed) =>
        /\ result = <<NEVER_STARTED>>
        /\ termRequests = 0
        /\ (Printed("Process failed to start") <=> options.verbose)

\* C7: the packet injector emits exactly one frame 00:11:11:00:00:00 ->
\* 00:22:22:00:00:00 on veth0 for selector "0", exactly one frame with the
\* addresses swapped on veth2 for selector "1", and for every other selector
\* ends in a fatal error with no frame emitted.
C7_Injector ==
    (prog = "sendpacket" /\ pc # "send") =>
        IF Len(sysargv) >= 2 /\ sysargv[2] = <<"0">>
        THEN /\ Len(frames) = 1
             /\ frames[1].src = <<"00", "11", "11", "00", "00", "00">>
             /\ frames[1].dst = <<"00", "22", "22", "00", "00", "00">>
             /\ frames[1].iface = "veth0"
             /\ pc \in {"sysexit", "exited"}
        ELSE IF Len(sysargv) >= 2 /\ sysargv[2] = <<"1">>
        THEN /\ Len(frames) = 1
             /\ frames[1].src = <<"00", "22", "22", "00", "00", "00">>
             /\ frames[1].dst = <<"00", "11", "11", "00", "00", "00">>
             /\ frames[1].iface = "veth2"
             /\ pc \in {"sysexit", "exited"}
        ELSE /\ frames = << >>
             /\ pc \in {"exc", "exited"}
             /\ (pc = "exited" => exitStatus = <<UNCAUGHT>>)

C7_Witness ==
    /\ prog = "sendpacket" /\ pc = "exited"
    /\ Len(sysargv) >= 2 /\ sysargv[2] = Sel1
    /\ Len(frames) = 1 /\ frames[1].iface = "veth2"
    /\ exitStatus = <<0>>

\* C8: at most one termination request is ever sent, no forceful kill is ever
\* sent, and run_timeout has not returned while a started child is still
\* running (so it never returns if the child never reacts to the request).
C8_Cancellation ==
    /\ termRequests <= 1
    /\ Len(signals) <= 1
    /\ \A i \in 1..Len(signals) : signals[i] = "SIGTERM"
    /\ (pc \in {"rt_return", "pf_after", "sysexit", "exited"} /\ child.state # "none")
          => child.state = "exited"
    /\ (child.state = "running" /\ termRequests = 1) => pc = "rt_join2"

C8_Witness ==
    /\ Returned /\ termRequests = 1 /\ signals = <<"SIGTERM">>
    /\ child.state = "exited" /\ child.status = <<-SIGTERM>>
    /\ result = <<-SIGTERM>>

\* C9: whenever the timeout branch of run_timeout runs, local.process already
\* holds the started child, so terminate() is never called on None.
C9_HandleSet ==
    pc \in {"rt_timeout", "rt_terminate"} => localProcess = "Popen"

\* C10: the command line has been written to the output before the child
\* process is started, and the "Exit code" line is written only after the
\* child has exited and the helper thread has observed it and finished.
C10_LogOrder ==
    /\ (child.state # "none") => Written("cmdline")
    /\ Printed("Exit code") =>
          /\ hpc = "done" /\ child.state = "exited"
          /\ returncode = child.status

====
